---- MODULE Spec2Model ----
(***************************************************************************)
(* Model of the chat back end of ChatRobot.                                *)
(*                                                                         *)
(*   backend/src/services/webSocketHandler.ts  one session per connection  *)
(*   backend/src/services/aiService.ts         the upstream stream client  *)
(*                                              and the response parser    *)
(*                                                                         *)
(* Node runs every handler to its next await, so each action below is one  *)
(* such run: an inbound frame or socket event handled by the session, or   *)
(* one resumption of an upstream call (the request settling, the retry     *)
(* timer firing, the response stream yielding, ending or throwing).        *)
(***************************************************************************)
EXTENDS Naturals, Sequences, FiniteSets, TLC

(* ------------------------------ bounds --------------------------------- *)

\* A session with several requests (Spec):
\* inbound frames the session receives
MaxFrames == 3
\* upstream calls of the session running at the same time
MaxCalls == 2
\* reads one upstream call takes from its response streams
MaxReads == 1
\* complete lines carried by one read
MaxLines == 1

\* A session with one request, its upstream call followed further (SpecCall):
\* reads the call takes from its response streams
CallReads == 3
\* complete lines carried by one read
CallLines == 2

\* The chat client fed by one server (SpecClient):
\* messages the user submits
MaxSubmits == 2
\* chunk messages the server sends in one turn
MaxChunks == 2

\* One response stream read in pieces (SpecStream):
\* records in the response
MaxRecords == 3

\* The connection manager (SpecManager):
\* sockets the manager creates
MaxSockets == 3
\* calls of sendMessage
MaxSends == 2

\* The response parser applied to one text (SpecParse):
\* pieces a text is put together from
MaxParts == 4

(* ------------------------- program constants --------------------------- *)

MAX_RETRIES == 3
MIN_CHUNK_SIZE == 1

(* ------------------------------ inputs --------------------------------- *)

\* Inbound frames: a well-formed chat request, a chat request whose payload
\* cannot be destructured, valid JSON of another type, and text that
\* JSON.parse rejects.
Frames == {"chat", "chatBadPayload", "unknown", "malformed"}

\* How one axios.post settles.
Retryable == {"http5xx", "noResponse"}
NonRetryable == {"http4xx", "setupError", "genericError"}
PostOutcomes == {"ok"} \cup Retryable \cup NonRetryable

\* Token deltas carried by the stream (delta.content may be the empty string).
Tokens == {"", "a"}

\* One complete line of the response: a data record with a token delta, a
\* data record with an embedded error object, the [DONE] record, or a line
\* that is skipped.
Line(k, v) == [k |-> k, v |-> v]
Lines == {Line("delta", t) : t \in Tokens}
           \cup {Line("error", ""), Line("done", ""), Line("skip", "")}

RECURSIVE SeqsUpTo(_, _)
SeqsUpTo(S, n) ==
  IF n = 0 THEN {<<>>}
  ELSE LET R == SeqsUpTo(S, n - 1)
       IN  R \cup {Append(r, x) : r \in {q \in R : Len(q) = n - 1}, x \in S}

Reads(n) == SeqsUpTo(Lines, n) \ {<<>>}

(* ------------------------------- state --------------------------------- *)

VARIABLES
  configured,          \* API_URL and API_KEY are both set
  isAIProcessing,      \* session: a generation is believed to be running
  isConnectionClosed,  \* session: close or error event seen
  messageBuffer,       \* session: text not yet sent as a chunk
  readyState,          \* ws.readyState
  sent,                \* the frames handed to ws.send since the last
                       \* 'processing' (that frame included), in order
  calls,               \* the upstream calls of the session, in start order;
                       \* a call that has returned is kept until the next starts
  nFrames,             \* inbound frames handled so far
  limit,               \* what the environment does at most in this run:
                       \* [frames, calls, reads, lines]
  fullText,            \* parser: the text handed to parseResponse
  payload,             \* parser: what parseResponse returned for it
  buffered,            \* the call of callAIServiceAndGetResponse, if any
  client,              \* useChatHandler, its typing animator and the chat
                       \* history of the store, as one record
  wire,                \* what the client's peer and user have done so far
  manager,             \* useWebSocketManager: its state, refs, sockets, timers
  reader               \* one response stream of callExternalAIServiceStream

sessionVars == <<configured, isAIProcessing, isConnectionClosed, messageBuffer,
                 readyState, sent, calls, nFrames, limit>>
parserVars == <<fullText, payload>>

clientVars == <<client, wire>>

vars == <<sessionVars, parserVars, buffered, clientVars, manager, reader>>

\* What the actions of one component leave alone.
offSession == <<parserVars, buffered, clientVars, manager, reader>>
offParser == <<sessionVars, buffered, clientVars, manager, reader>>
offBuffered == <<sessionVars, parserVars, clientVars, manager, reader>>
offClient == <<sessionVars, parserVars, buffered, manager, reader>>
offManager == <<sessionVars, parserVars, buffered, clientVars, reader>>
offReader == <<sessionVars, parserVars, buffered, clientVars, manager>>

(* ---------------- aiService.ts: callExternalAIServiceStream ------------ *)

\* A call is a record of the function's locals and of what it has done:
\*   pc            where the function is suspended: "post" (awaiting
\*                 axios.post), "delay" (awaiting the retry timer), "stream"
\*                 (awaiting the response stream), "done" (returned)
\*   attempt       the loop variable
\*   streamClosed  the local flag
\*   reads         reads taken from the response streams
\*   posts         axios.post requests issued
\*   hist          how each finished attempt ended, in order: "retryable" or
\*                 "fatal" for a failed request, "streamEnd", "streamError",
\*                 "streamThrow" or "aborted" for a response stream
\*   nError, nEnd  onError and onEnd callbacks fired
\*   late          a chunk or error callback was fired after onEnd
\*   out           the callbacks fired by the step being taken
Cb(k, v) == [k |-> k, v |-> v]

onChunk(c, textChunk) ==
  [c EXCEPT !.out = Append(@, Cb("chunk", textChunk)),
            !.late = @ \/ c.nEnd > 0]

onError(c) ==
  [c EXCEPT !.out = Append(@, Cb("error", "")),
            !.nError = @ + 1,
            !.late = @ \/ c.nEnd > 0]

onEnd(c) ==
  [c EXCEPT !.out = Append(@, Cb("end", "")), !.nEnd = @ + 1]

Ended(c, how) == [c EXCEPT !.hist = Append(@, how)]

\* hist names a failed request by what the upstream did, not by what the
\* client made of it.
Class(outcome) == IF outcome \in Retryable THEN "retryable" ELSE "fatal"

\* Variant: onEnd fired without looking at streamClosed.
ai_handleEnd_NoGuard(c) == onEnd([c EXCEPT !.streamClosed = TRUE])

ai_handleEnd(c) ==
  IF ~c.streamClosed
  THEN onEnd([c EXCEPT !.streamClosed = TRUE])
  ELSE c

ai_handleError(c) ==
  ai_handleEnd(IF ~c.streamClosed THEN onError(c) ELSE c)

\* The for statement moves to the next attempt: the request is issued at
\* once when the bound allows one, otherwise the function returns.
NextAttempt(c) ==
  IF c.attempt + 1 <= MAX_RETRIES
  THEN [c EXCEPT !.attempt = @ + 1, !.pc = "post", !.posts = @ + 1]
  ELSE [c EXCEPT !.attempt = @ + 1, !.pc = "done"]

\* The while loop over the complete lines of one read.
RECURSIVE ProcessLines(_, _)
ProcessLines(c, lines) ==
  IF lines = <<>> THEN c
  ELSE LET l == Head(lines)
       IN  CASE l.k = "delta" -> ProcessLines(onChunk(c, l.v), Tail(lines))
             [] l.k = "error" ->
                  [ai_handleError(Ended(c, "streamError"))
                      EXCEPT !.streamClosed = TRUE]
             [] OTHER -> ProcessLines(c, Tail(lines))

\* After the for await loop: normal completion ends the call, an aborted
\* iteration falls through to the next turn of the retry loop.
AfterStream(c) ==
  IF ~c.streamClosed
  THEN [ai_handleEnd(c) EXCEPT !.pc = "done"]
  ELSE NextAttempt(c)

StreamRead(c, lines) ==
  IF c.streamClosed THEN AfterStream(Ended(c, "aborted"))
  ELSE LET c1 == ProcessLines([c EXCEPT !.reads = @ + 1], lines)
       IN  IF c1.streamClosed THEN AfterStream(c1) ELSE c1

StreamEnds(c) == AfterStream(Ended(c, "streamEnd"))

StreamThrows(c) ==
  LET c0 == Ended(c, "streamThrow")
  IN  NextAttempt(IF ~c0.streamClosed THEN ai_handleError(c0) ELSE c0)

\* Variant: every failed request counts as retryable.
PostSettles_RetryAll(c, outcome) ==
  LET c0 == Ended(c, Class(outcome))
  IN  IF outcome = "ok" THEN [c EXCEPT !.pc = "stream"]
      ELSE IF c.attempt < MAX_RETRIES
           THEN [c0 EXCEPT !.pc = "delay"]
           ELSE [ai_handleError(c0) EXCEPT !.pc = "done"]

\* Variant: the error is reported for every failed request, retried or not.
PostSettles_ReportEach(c, outcome) ==
  LET c0 == onError(Ended(c, Class(outcome)))
  IN  IF outcome = "ok" THEN [c EXCEPT !.pc = "stream"]
      ELSE IF outcome \in Retryable /\ c.attempt < MAX_RETRIES
           THEN [c0 EXCEPT !.pc = "delay"]
           ELSE [ai_handleEnd(c0) EXCEPT !.pc = "done"]

\* Variant: the retry test lets the last attempt through.
PostSettles_OffByOne(c, outcome) ==
  LET c0 == Ended(c, Class(outcome))
  IN  IF outcome = "ok" THEN [c EXCEPT !.pc = "stream"]
      ELSE IF outcome \in Retryable /\ c.attempt <= MAX_RETRIES
           THEN [c0 EXCEPT !.pc = "delay"]
           ELSE [ai_handleError(c0) EXCEPT !.pc = "done"]

\* The catch block of the retry loop: isRetryable is set for a response with
\* a 5xx status and for a request that got no response, and for nothing else.
PostSettles(c, outcome) ==
  LET isRetryable == CASE outcome = "http5xx" -> TRUE
                       [] outcome = "http4xx" -> FALSE
                       [] outcome = "noResponse" -> TRUE
                       [] OTHER -> FALSE
      c0 == Ended(c, Class(outcome))
  IN  IF outcome = "ok" THEN [c EXCEPT !.pc = "stream"]
      ELSE IF isRetryable /\ c.attempt < MAX_RETRIES
           THEN [c0 EXCEPT !.pc = "delay"]
           ELSE [ai_handleError(c0) EXCEPT !.pc = "done"]

RetryDelayElapsed(c) == NextAttempt(c)

callExternalAIServiceStream(cfg) ==
  LET c0 == [pc |-> "done", attempt |-> 0, streamClosed |-> FALSE,
             reads |-> 0, posts |-> 0, hist |-> <<>>, nError |-> 0,
             nEnd |-> 0, late |-> FALSE, out |-> <<>>]
  IN  IF ~cfg
      THEN onEnd(onError(c0))
      ELSE [c0 EXCEPT !.attempt = 1, !.pc = "post", !.posts = 1]

(* ----------------------- aiService.ts: parseResponse ------------------- *)

\* A text is a sequence of characters.
EMOTION_KEYWORDS ==
  { <<"h","a","p","p","y">>, <<"e","x","c","i","t","e","d">>,
    <<"g","r","e","e","t","i","n","g">>, <<"a","g","r","e","e","m","e","n","t">>,
    <<"t","h","i","n","k","i","n","g">>, <<"n","e","u","t","r","a","l">>,
    <<"s","a","d">>, <<"c","o","n","f","u","s","e","d">> }

UpperCase == <<"A","B","C","D","E","F","G","H","I","J","K","L","M",
               "N","O","P","Q","R","S","T","U","V","W","X","Y","Z">>
LowerCase == <<"a","b","c","d","e","f","g","h","i","j","k","l","m",
               "n","o","p","q","r","s","t","u","v","w","x","y","z">>
Digits == {"0","1","2","3","4","5","6","7","8","9"}

\* \w and \s of the regular expression language
WordChars == {UpperCase[i] : i \in DOMAIN UpperCase}
               \cup {LowerCase[i] : i \in DOMAIN LowerCase} \cup Digits \cup {"_"}
WhiteSpace == {" ", "\t", "\n", "\r"}

\* String.prototype.toLowerCase
toLowerCase(t) ==
  [j \in DOMAIN t |->
     IF \E i \in DOMAIN UpperCase : UpperCase[i] = t[j]
     THEN LowerCase[CHOOSE i \in DOMAIN UpperCase : UpperCase[i] = t[j]]
     ELSE t[j]]

\* String.prototype.trim
trim(t) ==
  LET solid == {j \in DOMAIN t : t[j] \notin WhiteSpace}
  IN  IF solid = {} THEN <<>>
      ELSE SubSeq(t, CHOOSE j \in solid : \A k \in solid : j <= k,
                     CHOOSE j \in solid : \A k \in solid : k <= j)

\* /\[emotion:(\w+)\]$/ : where the match starts in t (0 when there is none).
\* The word runs from the character after the colon to the one before the
\* closing bracket, which is the last character of t.
TagOpen == <<"[","e","m","o","t","i","o","n",":">>

MatchesAt(t, i) ==
  /\ i + Len(TagOpen) + 1 <= Len(t)
  /\ SubSeq(t, i, i + Len(TagOpen) - 1) = TagOpen
  /\ t[Len(t)] = "]"
  /\ \A j \in (i + Len(TagOpen))..(Len(t) - 1) : t[j] \in WordChars

emotionRegex(t) ==
  LET hits == {i \in DOMAIN t : MatchesAt(t, i)}
  IN  IF hits = {} THEN 0 ELSE CHOOSE i \in hits : \A k \in hits : i <= k

Neutral == <<"n","e","u","t","r","a","l">>

\* Variant: the tag is cut off and the white space before it is kept.
parseResponse_TagOnly(text0) ==
  LET trimmed == trim(text0)
      index == emotionRegex(trimmed)
      word == SubSeq(trimmed, index + Len(TagOpen), Len(trimmed) - 1)
      detectedKeyword == toLowerCase(word)
  IN  IF index > 0 /\ detectedKeyword \in EMOTION_KEYWORDS
      THEN [text |-> SubSeq(trimmed, 1, index - 1), emotion |-> detectedKeyword]
      ELSE [text |-> trimmed, emotion |-> Neutral]

\* Variant: the word is not looked up in the keyword list.
parseResponse_NoValidate(text0) ==
  LET trimmed == trim(text0)
      index == emotionRegex(trimmed)
      word == SubSeq(trimmed, index + Len(TagOpen), Len(trimmed) - 1)
      detectedKeyword == toLowerCase(word)
  IN  IF index > 0
      THEN [text |-> trim(SubSeq(trimmed, 1, index - 1)), emotion |-> detectedKeyword]
      ELSE [text |-> trimmed, emotion |-> Neutral]

\* Variant: an unknown word is reported as the emotion, the text left alone.
parseResponse_NoDefault(text0) ==
  LET trimmed == trim(text0)
      index == emotionRegex(trimmed)
      word == SubSeq(trimmed, index + Len(TagOpen), Len(trimmed) - 1)
      detectedKeyword == toLowerCase(word)
  IN  IF index > 0 /\ detectedKeyword \in EMOTION_KEYWORDS
      THEN [text |-> trim(SubSeq(trimmed, 1, index - 1)), emotion |-> detectedKeyword]
      ELSE [text |-> trimmed,
            emotion |-> IF index > 0 THEN detectedKeyword ELSE Neutral]

parseResponse(text0) ==
  LET trimmed == trim(text0)
      index == emotionRegex(trimmed)
      word == SubSeq(trimmed, index + Len(TagOpen), Len(trimmed) - 1)
      detectedKeyword == toLowerCase(word)
  IN  IF index > 0 /\ detectedKeyword \in EMOTION_KEYWORDS
      THEN [text |-> trim(SubSeq(trimmed, 1, index - 1)), emotion |-> detectedKeyword]
      ELSE [text |-> trimmed, emotion |-> Neutral]

(* ---------------- aiService.ts: callAIServiceAndGetResponse ------------ *)

\* The buffered variant of the client: the token deltas are collected and the
\* parsed text is handed over once, by onComplete.  Its call record has pc,
\* attempt, streamClosed, reads and posts as above, and
\*   fullResponseBuffer  the deltas collected so far, joined
\*   fired               the callbacks fired so far, in order
\*   result              the payload onComplete was given
NoText == <<>>

\* delta.content values: the empty string, plain text, a tag
BufTokens == {NoText, <<"o","k">>, TagOpen \o <<"s","a","d","]">>}

BufLines == {Line("delta", t) : t \in BufTokens}
              \cup {Line("error", ""), Line("done", ""), Line("skip", "")}

Fire(c, name) == [c EXCEPT !.fired = Append(@, name)]

buf_handleEnd(c) ==
  IF ~c.streamClosed
  THEN Fire([c EXCEPT !.streamClosed = TRUE], "end")
  ELSE c

\* Variant: onError fired without looking at streamClosed.
buf_handleError_NoGuard(c) == buf_handleEnd(Fire(c, "error"))

buf_handleError(c) ==
  buf_handleEnd(IF ~c.streamClosed THEN Fire(c, "error") ELSE c)

buf_NextAttempt(c) ==
  IF c.attempt + 1 <= MAX_RETRIES
  THEN [c EXCEPT !.attempt = @ + 1, !.pc = "post", !.posts = @ + 1]
  ELSE [c EXCEPT !.attempt = @ + 1, !.pc = "done"]

\* The while loop over the complete lines of one read: a delta whose content
\* is truthy is pushed to the buffer.
RECURSIVE buf_ProcessLines(_, _)
buf_ProcessLines(c, lines) ==
  IF lines = <<>> THEN c
  ELSE LET l == Head(lines)
       IN  CASE l.k = "delta" ->
                  buf_ProcessLines(
                    IF l.v # NoText
                    THEN [c EXCEPT !.fullResponseBuffer = @ \o l.v]
                    ELSE c,
                    Tail(lines))
             [] l.k = "error" ->
                  [buf_handleError(c) EXCEPT !.streamClosed = TRUE]
             [] OTHER -> buf_ProcessLines(c, Tail(lines))

\* After the for await loop.
buf_AfterStream(c) ==
  IF ~c.streamClosed
  THEN LET finalPayload == parseResponse(c.fullResponseBuffer)
       IN  [buf_handleEnd(Fire([c EXCEPT !.result = finalPayload], "complete"))
              EXCEPT !.pc = "done"]
  ELSE buf_NextAttempt(c)

buf_StreamRead(c, lines) ==
  IF c.streamClosed THEN buf_AfterStream(c)
  ELSE LET c1 == buf_ProcessLines([c EXCEPT !.reads = @ + 1], lines)
       IN  IF c1.streamClosed THEN buf_AfterStream(c1) ELSE c1

buf_StreamEnds(c) == buf_AfterStream(c)

buf_StreamThrows(c) ==
  buf_NextAttempt(IF ~c.streamClosed THEN buf_handleError(c) ELSE c)

buf_PostSettles(c, outcome) ==
  LET isRetryable == CASE outcome = "http5xx" -> TRUE
                       [] outcome = "http4xx" -> FALSE
                       [] outcome = "noResponse" -> TRUE
                       [] OTHER -> FALSE
  IN  IF outcome = "ok" THEN [c EXCEPT !.pc = "stream"]
      ELSE IF isRetryable /\ c.attempt < MAX_RETRIES
           THEN [c EXCEPT !.pc = "delay"]
           ELSE [buf_handleError(c) EXCEPT !.pc = "done"]

NoPayload == [text |-> <<>>, emotion |-> <<>>]

callAIServiceAndGetResponse(cfg) ==
  LET c0 == [pc |-> "done", attempt |-> 0, streamClosed |-> FALSE,
             reads |-> 0, posts |-> 0, fullResponseBuffer |-> NoText,
             fired |-> <<>>, result |-> NoPayload]
  IN  IF ~cfg
      THEN Fire(Fire(c0, "error"), "end")
      ELSE [c0 EXCEPT !.attempt = 1, !.pc = "post", !.posts = 1]

(* -------------------------- webSocketHandler.ts ------------------------ *)

Msg(t, p) == [type |-> t, payload |-> p]

\* The session's closure variables as one record, so that the helpers can
\* be applied one after the other within a handler.
Session ==
  [isAIProcessing |-> isAIProcessing, isConnectionClosed |-> isConnectionClosed,
   messageBuffer |-> messageBuffer, sent |-> sent]

Commit(s) ==
  /\ isAIProcessing' = s.isAIProcessing
  /\ isConnectionClosed' = s.isConnectionClosed
  /\ messageBuffer' = s.messageBuffer
  /\ sent' = s.sent

sendToClient(s, message) ==
  IF s.isConnectionClosed THEN s
  ELSE IF readyState = "OPEN"
       THEN [s EXCEPT !.sent = IF message.type = "processing" THEN <<message>>
                                ELSE Append(@, message)]
       ELSE s

flushBuffer(s) ==
  IF Len(s.messageBuffer) > 0
  THEN [sendToClient(s, Msg("chunk", s.messageBuffer)) EXCEPT !.messageBuffer = ""]
  ELSE s

handleChunk(s, chunk) ==
  IF s.isConnectionClosed THEN s
  ELSE LET s1 == [s EXCEPT !.messageBuffer = @ \o chunk]
       IN  IF Len(s1.messageBuffer) >= MIN_CHUNK_SIZE THEN flushBuffer(s1) ELSE s1

\* Variant: the error is written to the socket directly, whatever its state.
handleError_DirectSend(s) ==
  LET s1 == flushBuffer(s)
  IN  [s1 EXCEPT !.sent = Append(Append(@, Msg("error", "ai")), Msg("idle", "")),
                 !.isAIProcessing = FALSE]

handleError(s) ==
  IF s.isConnectionClosed THEN s
  ELSE LET s1 == sendToClient(flushBuffer(s), Msg("error", "ai"))
       IN  sendToClient([s1 EXCEPT !.isAIProcessing = FALSE], Msg("idle", ""))

\* Variant: the commented-out 'fullResponse' is sent before 'idle'.
handleEnd_FullResponse(s) ==
  IF s.isConnectionClosed THEN s
  ELSE sendToClient(
         sendToClient([flushBuffer(s) EXCEPT !.isAIProcessing = FALSE],
                      Msg("fullResponse", "")),
         Msg("idle", ""))

handleEnd(s) ==
  IF s.isConnectionClosed THEN s
  ELSE sendToClient([flushBuffer(s) EXCEPT !.isAIProcessing = FALSE], Msg("idle", ""))

\* Variant: handleEnd is passed where handleError belongs.
RECURSIVE Deliver_ErrorAsEnd(_, _)
Deliver_ErrorAsEnd(s, cbs) ==
  IF cbs = <<>> THEN s
  ELSE LET cb == Head(cbs)
           s1 == CASE cb.k = "chunk" -> handleChunk(s, cb.v)
                   [] cb.k = "error" -> handleEnd(s)
                   [] cb.k = "end" -> handleEnd(s)
                   [] OTHER -> s
       IN  Deliver_ErrorAsEnd(s1, Tail(cbs))

\* The callbacks a step of a call fired, handed to the session in order.
RECURSIVE Deliver(_, _)
Deliver(s, cbs) ==
  IF cbs = <<>> THEN s
  ELSE LET cb == Head(cbs)
           s1 == CASE cb.k = "chunk" -> handleChunk(s, cb.v)
                   [] cb.k = "error" -> handleError(s)
                   [] cb.k = "end" -> handleEnd(s)
                   [] OTHER -> s
       IN  Deliver(s1, Tail(cbs))

Settled(c) == [c EXCEPT !.out = <<>>]

Returned(c) == c.pc = "done"
Running == SelectSeq(calls, LAMBDA c : ~Returned(c))

\* Variant: the busy check is missing.
OnChat_NoBusyCheck ==
  LET s1 == sendToClient([Session EXCEPT !.isAIProcessing = TRUE],
                         Msg("processing", ""))
      c == callExternalAIServiceStream(configured)
  IN  /\ Commit(Deliver(s1, c.out))
      /\ calls' = Append(SelectSeq(calls, LAMBDA x : x.pc # "done"), Settled(c))

\* Variant: the chat branch does not set isAIProcessing.
OnChat_FlagNotSet ==
  IF isAIProcessing
  THEN /\ Commit(sendToClient(Session, Msg("error", "busy")))
       /\ UNCHANGED calls
  ELSE LET s1 == sendToClient(Session, Msg("processing", ""))
           c == callExternalAIServiceStream(configured)
       IN  /\ Commit(Deliver(s1, c.out))
           /\ calls' = Append(Running, Settled(c))

\* ws.on('message')
OnChat ==
  IF isAIProcessing
  THEN /\ Commit(sendToClient(Session, Msg("error", "busy")))
       /\ UNCHANGED calls
  ELSE LET s1 == sendToClient([Session EXCEPT !.isAIProcessing = TRUE],
                              Msg("processing", ""))
           c == callExternalAIServiceStream(configured)
       IN  /\ Commit(Deliver(s1, c.out))
           /\ calls' = Append(Running, Settled(c))

\* The catch block of the message handler.
CatchInvalid(s) ==
  LET s1 == sendToClient(s, Msg("error", "invalid"))
  IN  IF s1.isAIProcessing
      THEN sendToClient([s1 EXCEPT !.isAIProcessing = FALSE], Msg("idle", ""))
      ELSE s1

OnChatBadPayload ==
  /\ UNCHANGED calls
  /\ IF isAIProcessing
     THEN Commit(sendToClient(Session, Msg("error", "busy")))
     ELSE Commit(CatchInvalid(sendToClient([Session EXCEPT !.isAIProcessing = TRUE],
                                           Msg("processing", ""))))

OnUnknown ==
  /\ Commit(sendToClient(Session, Msg("error", "unknown")))
  /\ UNCHANGED calls

OnMalformed ==
  /\ Commit(CatchInvalid(Session))
  /\ UNCHANGED calls

OnMessage(frame) ==
  /\ readyState = "OPEN"
  /\ nFrames < limit.frames
  /\ (frame = "chat" /\ ~isAIProcessing) => Len(Running) < limit.calls
  /\ nFrames' = nFrames + 1
  /\ CASE frame = "chat" -> OnChat
       [] frame = "chatBadPayload" -> OnChatBadPayload
       [] frame = "unknown" -> OnUnknown
       [] OTHER -> OnMalformed
  /\ UNCHANGED <<configured, readyState, limit, offSession>>

\* The peer or the transport starts closing: readyState leaves OPEN before
\* the close event is delivered.
SocketClosing ==
  /\ readyState = "OPEN"
  /\ readyState' = "CLOSING"
  /\ UNCHANGED <<configured, isAIProcessing, isConnectionClosed, messageBuffer,
                 sent, calls, nFrames, limit, offSession>>

\* ws.on('close')
OnClose ==
  /\ readyState # "CLOSED"
  /\ readyState' = "CLOSED"
  /\ isConnectionClosed' = TRUE
  /\ UNCHANGED <<configured, isAIProcessing, messageBuffer, sent, calls, nFrames,
                 limit, offSession>>

\* ws.on('error'): ws reports the error with the socket already closing.
OnError ==
  /\ readyState # "CLOSED"
  /\ readyState' = "CLOSING"
  /\ isConnectionClosed' = TRUE
  /\ isAIProcessing' = FALSE
  /\ UNCHANGED <<configured, messageBuffer, sent, calls, nFrames, limit,
                 offSession>>

\* One resumption of call i, its callbacks delivered to the session.
Resume(i, c1) ==
  /\ calls' = [calls EXCEPT ![i] = Settled(c1)]
  /\ Commit(Deliver(Session, c1.out))
  /\ UNCHANGED <<configured, readyState, nFrames, limit, offSession>>

DoPostSettles(i, outcome) ==
  /\ calls[i].pc = "post"
  /\ Resume(i, PostSettles(calls[i], outcome))

DoRetryDelayElapsed(i) ==
  /\ calls[i].pc = "delay"
  /\ Resume(i, RetryDelayElapsed(calls[i]))

DoStreamRead(i, lines) ==
  /\ calls[i].pc = "stream"
  /\ calls[i].reads < limit.reads
  /\ Len(lines) <= limit.lines
  /\ Resume(i, StreamRead(calls[i], lines))

DoStreamEnds(i) ==
  /\ calls[i].pc = "stream"
  /\ Resume(i, StreamEnds(calls[i]))

DoStreamThrows(i) ==
  /\ calls[i].pc = "stream"
  /\ Resume(i, StreamThrows(calls[i]))

Limit(f, c, r, l) == [frames |-> f, calls |-> c, reads |-> r, lines |-> l]

Start ==
  /\ configured \in BOOLEAN
  /\ isAIProcessing = FALSE
  /\ isConnectionClosed = FALSE
  /\ messageBuffer = ""
  /\ readyState = "OPEN"
  /\ sent = <<>>
  /\ calls = <<>>
  /\ nFrames = 0

\* No text is being parsed.
ParserIdle == fullText = <<>> /\ payload = NoPayload

\* callAIServiceAndGetResponse is not called.
NoCall == [pc |-> "none"]
BufferedIdle == buffered = NoCall

\* The chat client has not started: the state of useChatHandler after its
\* first render, with an empty history, and nothing on the wire.
Null == 0

\* No emotion keyword: null, undefined or the empty string, which the code
\* tests alike.
NoEmotion == ""

NoClient ==
  [isBotProcessing |-> FALSE, currentBotMessageId |-> Null,
   accumulatedBotResponse |-> <<>>, currentEmotionRef |-> NoEmotion,
   isStreamCompleteRef |-> FALSE, characterQueueRef |-> <<>>,
   animationTimeoutRef |-> FALSE, finalizationTimeoutRef |-> FALSE,
   chatHistory |-> <<>>, nextId |-> 1, completions |-> <<>>,
   queuedFor |-> <<>>, turnId |-> Null, arrived |-> <<>>,
   speaking |-> FALSE, animation |-> "idle"]

NoWire == [inbox |-> <<>>, srv |-> "Idle", pending |-> 0, submits |-> 0, chunks |-> 0]

ClientIdle == client = NoClient /\ wire = NoWire

\* useWebSocketManager before its mount effect has run. sockets holds, for
\* each WebSocket made, its readyState and whether close() was called on it
\* here; timers holds the pending setTimeout(connect) timers; transmitted
\* counts the frames handed to an open socket, sends the calls of sendMessage.
NoManager ==
  [isConnected |-> FALSE, ws |-> Null, reconnectTimeoutRef |-> Null,
   sockets |-> <<>>, timers |-> {}, nextTimer |-> 1,
   transmitted |-> 0, sends |-> 0]

ManagerIdle == manager = NoManager

\* No response stream is being read.
ReaderIdle == reader = [pc |-> "none"]

Init ==
  /\ Start /\ limit = Limit(MaxFrames, MaxCalls, MaxReads, MaxLines)
  /\ ParserIdle /\ BufferedIdle /\ ClientIdle /\ ManagerIdle /\ ReaderIdle

InitCall ==
  /\ Start /\ limit = Limit(1, 1, CallReads, CallLines)
  /\ ParserIdle /\ BufferedIdle /\ ClientIdle /\ ManagerIdle /\ ReaderIdle

Next ==
  \/ \E frame \in Frames : OnMessage(frame)
  \/ SocketClosing
  \/ OnClose
  \/ OnError
  \/ \E i \in DOMAIN calls, outcome \in PostOutcomes : DoPostSettles(i, outcome)
  \/ \E i \in DOMAIN calls : DoRetryDelayElapsed(i)
  \/ \E i \in DOMAIN calls, lines \in Reads(limit.lines) : DoStreamRead(i, lines)
  \/ \E i \in DOMAIN calls : DoStreamEnds(i)
  \/ \E i \in DOMAIN calls : DoStreamThrows(i)

Spec == Init /\ [][Next]_vars

SpecCall == InitCall /\ [][Next]_vars

(* ------------- hooks/useTypingAnimator.ts, useChatHandler -------------- *)

\* The client record holds useChatHandler's state and refs (isBotProcessing,
\* currentBotMessageId, accumulatedBotResponse, currentEmotionRef,
\* isStreamCompleteRef), the animator's refs (characterQueueRef and whether
\* animationTimeoutRef and finalizationTimeoutRef hold a pending timer), the
\* store's chatHistory, and
\*   nextId       the next message id to be made (ids are unique)
\*   completions  the calls of onAnimationComplete so far: message id,
\*                animation played, text spoken
\*   queuedFor    for each queued character, the message id that was current
\*                when it was queued
\*   turnId       the id of the message made by the latest 'processing'
\*   arrived      the texts of the chunk payloads handled since then, joined
\* and two fields for what the hooks called by useChatHandler hold:
\*   speaking     an utterance is held by useSpeechSynthesizer: speak() was
\*                called and cancelSpeech() was not called since
\*   animation    the animation last asked for with playAnimation
\* A text is a sequence of characters; an error text is one token.
DEFAULT_ANIMATION == "idle"

emotionKeywordToAnimationMap(emotionKeyword) ==
  CASE emotionKeyword \in {"happy", "excited"} -> "jump"
    [] emotionKeyword \in {"greeting", "agreement"} -> "wave"
    [] emotionKeyword \in {"thinking", "neutral", "sad", "confused"} -> "idle"
    [] OTHER -> NoEmotion

\* store actions
addChatMessage(c, message) == [c EXCEPT !.chatHistory = Append(@, message)]

updateMessageText(c, messageId, textToAppend) ==
  [c EXCEPT !.chatHistory =
     [k \in DOMAIN @ |->
        IF @[k].id = messageId THEN [@[k] EXCEPT !.text = @ \o textToAppend]
        ELSE @[k]]]

stopAnimation(c) ==
  [c EXCEPT !.animationTimeoutRef = FALSE, !.finalizationTimeoutRef = FALSE]

startAnimation(c) == [stopAnimation(c) EXCEPT !.animationTimeoutRef = TRUE]

addToQueue(c, chars) ==
  [c EXCEPT !.characterQueueRef = @ \o chars,
            !.queuedFor = @ \o [i \in 1..Len(chars) |-> c.currentBotMessageId]]

\* handleAnimationComplete that plays what the map gives, with no default
handleAnimationComplete_NoDefault(c, messageId, finalText) ==
  [c EXCEPT !.completions =
              Append(@, [id |-> messageId,
                         animation |-> emotionKeywordToAnimationMap(c.currentEmotionRef),
                         spoken |-> finalText]),
            !.animation = emotionKeywordToAnimationMap(c.currentEmotionRef),
            !.speaking = TRUE,
            !.currentBotMessageId = Null,
            !.accumulatedBotResponse = <<>>,
            !.isBotProcessing = FALSE]

handleAnimationComplete(c, messageId, finalText) ==
  LET emotionKeyword == c.currentEmotionRef
      animationToPlay ==
        IF emotionKeyword # NoEmotion /\ emotionKeywordToAnimationMap(emotionKeyword) # NoEmotion
        THEN emotionKeywordToAnimationMap(emotionKeyword)
        ELSE DEFAULT_ANIMATION
  IN  [c EXCEPT !.completions = Append(@, [id |-> messageId,
                                           animation |-> animationToPlay,
                                           spoken |-> finalText]),
                !.animation = animationToPlay,
                !.speaking = TRUE,
                !.currentBotMessageId = Null,
                !.accumulatedBotResponse = <<>>,
                !.isBotProcessing = FALSE]

finalizeAnimation(c) ==
  LET finalMessageId == c.currentBotMessageId
      finalAccumulatedResponse == c.accumulatedBotResponse
  IN  stopAnimation(
        IF finalMessageId # Null /\ finalAccumulatedResponse # <<>>
        THEN handleAnimationComplete(c, finalMessageId, finalAccumulatedResponse)
        ELSE c)

animationLoop(c) ==
  LET currentMessageId == c.currentBotMessageId
  IN  IF Len(c.characterQueueRef) > 0
      THEN IF currentMessageId = Null
           THEN [stopAnimation(c) EXCEPT !.characterQueueRef = <<>>,
                                         !.queuedFor = <<>>]
           ELSE LET charToRender == <<Head(c.characterQueueRef)>>
                    c1 == [c EXCEPT !.characterQueueRef = Tail(@),
                                    !.queuedFor = Tail(@)]
                IN  [updateMessageText(c1, currentMessageId, charToRender)
                       EXCEPT !.animationTimeoutRef = TRUE]
      ELSE IF c.isStreamCompleteRef
           THEN [c EXCEPT !.finalizationTimeoutRef = TRUE,
                          !.animationTimeoutRef = FALSE]
           ELSE [c EXCEPT !.animationTimeoutRef = TRUE]

\* The cases of handleWebSocketMessage. A payload is [kind, text, emotion]:
\* kind "object" for { text, emotion } and "string" for a bare string, with an
\* empty text or no emotion for a field that is missing.
NewId(c) == c.nextId

\* case "processing" that keeps a message id that is still current
case_processing_KeepId(c) ==
  LET c1 == stopAnimation([c EXCEPT !.isBotProcessing = TRUE,
                                    !.isStreamCompleteRef = FALSE,
                                    !.accumulatedBotResponse = <<>>,
                                    !.currentEmotionRef = NoEmotion])
      botMessageId == NewId(c)
      placeholderMessage == [id |-> botMessageId, sender |-> "bot", text |-> <<>>]
      c2 == addChatMessage([c1 EXCEPT !.nextId = @ + 1], placeholderMessage)
  IN  startAnimation([c2 EXCEPT !.currentBotMessageId =
                                  IF @ = Null THEN botMessageId ELSE @,
                                !.turnId = botMessageId,
                                !.arrived = <<>>])

case_processing(c) ==
  LET c1 == stopAnimation([c EXCEPT !.isBotProcessing = TRUE,
                                    !.isStreamCompleteRef = FALSE,
                                    !.accumulatedBotResponse = <<>>,
                                    !.currentEmotionRef = NoEmotion])
      botMessageId == NewId(c)
      placeholderMessage == [id |-> botMessageId, sender |-> "bot", text |-> <<>>]
      c2 == addChatMessage([c1 EXCEPT !.nextId = @ + 1], placeholderMessage)
  IN  startAnimation([c2 EXCEPT !.currentBotMessageId = botMessageId,
                                !.turnId = botMessageId,
                                !.arrived = <<>>])

case_chunk(c, body) ==
  LET c0 == [c EXCEPT !.arrived = @ \o body.text]
  IN  IF body.kind = "object"
         /\ c.currentBotMessageId # Null /\ body.text # <<>>
      THEN LET c1 == addToQueue([c0 EXCEPT !.accumulatedBotResponse = @ \o body.text],
                                body.text)
           IN  IF body.emotion # NoEmotion /\ c.currentEmotionRef = NoEmotion
               THEN [c1 EXCEPT !.currentEmotionRef = body.emotion]
               ELSE c1
      ELSE c0

case_fullResponse(c, body) ==
  IF body.kind = "object" /\ c.currentBotMessageId # Null /\ body.text # <<>>
  THEN [addToQueue([c EXCEPT !.accumulatedBotResponse = body.text], body.text)
          EXCEPT !.isStreamCompleteRef = TRUE,
                 !.currentEmotionRef = body.emotion]
  ELSE c

\* case "idle" that flushes what is queued into the message
case_idle_Flush(c) ==
  [updateMessageText(c, c.currentBotMessageId, c.characterQueueRef)
     EXCEPT !.isStreamCompleteRef = TRUE,
            !.characterQueueRef = <<>>,
            !.queuedFor = <<>>]

case_idle(c) == [c EXCEPT !.isStreamCompleteRef = TRUE]

\* The tail of case "error" without its stopAnimation()
ShowError_NoStop(c, bubble, entry) ==
  LET c1 == [c EXCEPT !.isBotProcessing = FALSE]
      c2 == IF c.currentBotMessageId # Null
            THEN updateMessageText(c1, c.currentBotMessageId, bubble)
            ELSE addChatMessage([c1 EXCEPT !.nextId = @ + 1],
                                [id |-> NewId(c), sender |-> "system", text |-> entry])
  IN  [c2 EXCEPT !.currentBotMessageId = Null,
                 !.accumulatedBotResponse = <<>>,
                 !.currentEmotionRef = NoEmotion]

\* The tail shared by case "error" and the catch block.
ShowError(c, bubble, entry) ==
  LET c1 == [stopAnimation(c) EXCEPT !.isBotProcessing = FALSE]
      c2 == IF c.currentBotMessageId # Null
            THEN updateMessageText(c1, c.currentBotMessageId, bubble)
            ELSE addChatMessage([c1 EXCEPT !.nextId = @ + 1],
                                [id |-> NewId(c), sender |-> "system", text |-> entry])
  IN  [c2 EXCEPT !.currentBotMessageId = Null,
                 !.accumulatedBotResponse = <<>>,
                 !.currentEmotionRef = NoEmotion]

case_error(c, body) ==
  ShowError(c, <<"Error: ">> \o body.text, <<"Server Error: ">> \o body.text)

handleWebSocketMessage_catch(c) ==
  ShowError(c, <<"Error: Received invalid message format from server.">>,
               <<"Error: Received invalid message format from server.">>)

NoFields == [kind |-> "none", text |-> <<>>, emotion |-> NoEmotion]

\* message is what ws.onmessage passes on: a parsed frame, "null" for the
\* frame whose JSON is null.
handleWebSocketMessage(c, message) ==
  CASE message.type = "processing" -> case_processing(c)
    [] message.type = "chunk" -> case_chunk(c, message.payload)
    [] message.type = "fullResponse" -> case_fullResponse(c, message.payload)
    [] message.type = "idle" -> case_idle(c)
    [] message.type = "error" -> case_error(c, message.payload)
    [] message.type = "null" -> handleWebSocketMessage_catch(c)
    [] OTHER -> c

\* ws.onmessage of useWebSocketManager: data is the frame as received. A
\* frame that JSON.parse rejects ("malformed") is logged to the console and
\* dropped; any other is parsed and passed to the handler.
ws_onmessage(c, data) ==
  IF data.type = "malformed" THEN c ELSE handleWebSocketMessage(c, data)

\* The history submitUserMessage puts into the chat frame: the stored
\* messages but the one in progress, the last ten of them, as role and
\* content. The field of is not part of the frame: it names the stored
\* message an entry was made from.
HISTORY_WINDOW == 10

apiHistory(c) ==
  LET kept == SelectSeq(c.chatHistory, LAMBDA msg : msg.id # c.currentBotMessageId)
      from == IF Len(kept) > HISTORY_WINDOW THEN Len(kept) - HISTORY_WINDOW + 1 ELSE 1
      last == SubSeq(kept, from, Len(kept))
  IN  [k \in DOMAIN last |->
         [role |-> IF last[k].sender = "user" THEN "user" ELSE "assistant",
          content |-> last[k].text, of |-> last[k].id]]

\* The message list the server hands to the upstream service for a chat
\* frame with this history and userInput (webSocketHandler.ts).
messages(history, userInput) ==
  <<[role |-> "system", content |-> <<"prompt">>, of |-> Null]>>
    \o history
    \o <<[role |-> "user", content |-> userInput, of |-> Null]>>

\* isConnected and a non-blank userText are taken as given.
submitUserMessage(c) ==
  [stopAnimation(c) EXCEPT !.speaking = FALSE,
                           !.animation = "idle",
                           !.accumulatedBotResponse = <<>>]

(* ---------------------- components/ChatConsole.tsx --------------------- *)

\* Enter in the input field, with the game idle and the socket connected.
ChatConsole_handleKeyDown(c) ==
  IF ~c.isBotProcessing
  THEN submitUserMessage(
         addChatMessage([c EXCEPT !.nextId = @ + 1],
                        [id |-> NewId(c), sender |-> "user", text |-> <<"hi">>]))
  ELSE c

(* ------------------- the client and its server, in steps ---------------- *)

\* wire is [inbox, srv, pending, submits, chunks]: the frames sent to the
\* client and not yet handled, whether the server is generating, the chat
\* frames on their way to the server, and the counts the bounds apply to. The
\* server sends its frames in the order of webSocketHandler.ts.
Frame(type, body) == [type |-> type, payload |-> body]

Text(t) == [kind |-> "string", text |-> t, emotion |-> NoEmotion]

Obj(t, e) == [kind |-> "object", text |-> t, emotion |-> e]

ChunkPayloads ==
  {Obj(<<"A", "B">>, "happy"), Obj(<<"C">>, NoEmotion), Obj(<<>>, "sad"), Text(<<"D">>)}

InitClient ==
  /\ Start
  /\ limit = Limit(0, 0, 0, 0)
  /\ ParserIdle
  /\ BufferedIdle
  /\ ClientIdle
  /\ ManagerIdle
  /\ ReaderIdle

\* The user presses Enter.
UserSubmits ==
  /\ wire.submits < MaxSubmits
  /\ ~client.isBotProcessing
  /\ client' = ChatConsole_handleKeyDown(client)
  /\ wire' = [wire EXCEPT !.submits = @ + 1, !.pending = @ + 1]
  /\ UNCHANGED offClient

\* The server takes a chat frame: 'processing', or the busy error.
ServerTakesChat ==
  /\ wire.pending > 0
  /\ wire' = IF wire.srv = "Idle"
             THEN [wire EXCEPT !.pending = @ - 1, !.srv = "Generating", !.chunks = 0,
                               !.inbox = Append(@, Frame("processing", NoFields))]
             ELSE [wire EXCEPT !.pending = @ - 1,
                               !.inbox = Append(@, Frame("error", Text(<<"busy">>)))]
  /\ UNCHANGED <<client, offClient>>

ServerSendsChunk(body) ==
  /\ wire.srv = "Generating"
  /\ wire.chunks < MaxChunks
  /\ wire' = [wire EXCEPT !.chunks = @ + 1,
                          !.inbox = Append(@, Frame("chunk", body))]
  /\ UNCHANGED <<client, offClient>>

\* handleEnd
ServerEnds ==
  /\ wire.srv = "Generating"
  /\ wire' = [wire EXCEPT !.srv = "Idle", !.inbox = Append(@, Frame("idle", NoFields))]
  /\ UNCHANGED <<client, offClient>>

\* handleError and then handleEnd
ServerFails ==
  /\ wire.srv = "Generating"
  /\ wire' = [wire EXCEPT !.srv = "Idle",
                          !.inbox = @ \o <<Frame("error", Text(<<"failed">>)),
                                           Frame("idle", NoFields),
                                           Frame("idle", NoFields)>>]
  /\ UNCHANGED <<client, offClient>>

\* ws.onmessage with the next frame
Receive ==
  /\ wire.inbox # <<>>
  /\ client' = ws_onmessage(client, Head(wire.inbox))
  /\ wire' = [wire EXCEPT !.inbox = Tail(@)]
  /\ UNCHANGED offClient

\* the timer of animationTimeoutRef fires
AnimationTimeout ==
  /\ client.animationTimeoutRef
  /\ client' = animationLoop([client EXCEPT !.animationTimeoutRef = FALSE])
  /\ UNCHANGED <<wire, offClient>>

\* the timer of finalizationTimeoutRef fires
FinalizationTimeout ==
  /\ client.finalizationTimeoutRef
  /\ client' = finalizeAnimation([client EXCEPT !.finalizationTimeoutRef = FALSE])
  /\ UNCHANGED <<wire, offClient>>

NextClient ==
  \/ UserSubmits
  \/ ServerTakesChat
  \/ \E body \in ChunkPayloads : ServerSendsChunk(body)
  \/ ServerEnds
  \/ ServerFails
  \/ Receive
  \/ AnimationTimeout
  \/ FinalizationTimeout

SpecClient == InitClient /\ [][NextClient]_vars

\* The same, with what the event loop guarantees: a frame that has arrived
\* is handled, and a timer that is set and not cleared fires.
FairClient ==
  /\ WF_vars(Receive)
  /\ WF_vars(AnimationTimeout)
  /\ WF_vars(FinalizationTimeout)

SpecClientFair == SpecClient /\ FairClient

\* The client with a peer that is only known to speak the protocol: a chunk
\* frame may come at any time, also after the 'idle' of its turn.
PeerSendsChunk(body) ==
  /\ wire.chunks < MaxChunks
  /\ wire' = [wire EXCEPT !.chunks = @ + 1,
                          !.inbox = Append(@, Frame("chunk", body))]
  /\ UNCHANGED <<client, offClient>>

NextAnyPeer ==
  \/ NextClient
  \/ \E body \in ChunkPayloads : PeerSendsChunk(body)

SpecAnyPeer == InitClient /\ [][NextAnyPeer]_vars

\* The client with a peer that may also send text that is not JSON. Such a
\* frame counts as one of the frames of the turn.
PeerSendsMalformed ==
  /\ wire.chunks < MaxChunks
  /\ wire' = [wire EXCEPT !.chunks = @ + 1,
                          !.inbox = Append(@, Frame("malformed", NoFields))]
  /\ UNCHANGED <<client, offClient>>

NextBadFrame ==
  \/ NextClient
  \/ PeerSendsMalformed

SpecBadFrame == InitClient /\ [][NextBadFrame]_vars

(* ---------------------- hooks/useWebSocketManager ---------------------- *)

NORMAL_CLOSURE == 1000
GOING_AWAY == 1001
NO_STATUS_RECEIVED == 1005
ABNORMAL_CLOSURE == 1006

IsOpen(m) == m.ws # Null /\ m.sockets[m.ws].readyState = "OPEN"

\* clearTimeout(reconnectTimeoutRef.current); reconnectTimeoutRef.current = null
ClearReconnect(m) ==
  [m EXCEPT !.timers = @ \ {m.reconnectTimeoutRef}, !.reconnectTimeoutRef = Null]

connect(m) ==
  IF IsOpen(m) THEN m
  ELSE LET m1 == ClearReconnect(m)
       IN  [m1 EXCEPT !.sockets = Append(@, [readyState |-> "CONNECTING",
                                             manual |-> FALSE]),
                      !.ws = Len(m.sockets) + 1]

onopen(m) == [m EXCEPT !.isConnected = TRUE]

\* onclose that reconnects whatever the close code is
onclose_AnyCode(m, code) ==
  [m EXCEPT !.isConnected = FALSE,
            !.ws = Null,
            !.timers = @ \cup {m.nextTimer},
            !.reconnectTimeoutRef = m.nextTimer,
            !.nextTimer = @ + 1]

onclose(m, code) ==
  LET m1 == [m EXCEPT !.isConnected = FALSE, !.ws = Null]
  IN  IF code # NORMAL_CLOSURE /\ code # NO_STATUS_RECEIVED
      THEN [m1 EXCEPT !.timers = @ \cup {m.nextTimer},
                      !.reconnectTimeoutRef = m.nextTimer,
                      !.nextTimer = @ + 1]
      ELSE m1

disconnect(m) ==
  LET m1 == ClearReconnect(m)
      m2 == IF m.ws # Null
            THEN [m1 EXCEPT !.sockets[m.ws] =
                              [readyState |-> IF @.readyState = "CLOSED"
                                              THEN "CLOSED" ELSE "CLOSING",
                               manual |-> TRUE],
                            !.ws = Null]
            ELSE m1
  IN  [m2 EXCEPT !.isConnected = FALSE]

\* sendMessage that trusts the isConnected flag
sendMessage_IfConnected(m) ==
  [m EXCEPT !.sends = @ + 1,
            !.transmitted = IF m.isConnected THEN @ + 1 ELSE @]

sendMessage(m) ==
  [m EXCEPT !.sends = @ + 1,
            !.transmitted = IF IsOpen(m) THEN @ + 1 ELSE @]

\* submitUserMessage without its first test
submitUserMessage_NoGuard(c, m, userText) ==
  [client |-> submitUserMessage(c), manager |-> sendMessage(m)]

\* One call of submitUserMessage(userText), from its first test to
\* sendMessage: c is the state of useChatHandler and m that of the connection
\* manager it uses.
submitUserMessage_call(c, m, userText) ==
  IF ~m.isConnected \/ trim(userText) = <<>>
  THEN [client |-> c, manager |-> m]
  ELSE [client |-> submitUserMessage(c), manager |-> sendMessage(m)]

\* The close codes a close event of socket i can carry: after close(1000) on
\* an open socket the code of the closing handshake, or 1006 when the
\* connection is lost first; 1006 after close() on a socket that was still
\* connecting or that never connects; any code when the peer closes.
CloseCodes(m, i) ==
  IF m.sockets[i].manual
  THEN {NORMAL_CLOSURE, ABNORMAL_CLOSURE}
  ELSE IF m.sockets[i].readyState = "CONNECTING"
       THEN {ABNORMAL_CLOSURE}
       ELSE {NORMAL_CLOSURE, GOING_AWAY, NO_STATUS_RECEIVED, ABNORMAL_CLOSURE}

InitManager ==
  /\ Start
  /\ limit = Limit(0, 0, 0, 0)
  /\ ParserIdle
  /\ BufferedIdle
  /\ ClientIdle
  /\ ManagerIdle
  /\ ReaderIdle

\* connect() called by the mount effect or by the owner of the hook
Connect ==
  /\ Len(manager.sockets) < MaxSockets
  /\ manager' = connect(manager)
  /\ UNCHANGED offManager

\* a reconnect timer fires
ReconnectTimeout ==
  /\ Len(manager.sockets) < MaxSockets
  /\ \E t \in manager.timers :
       manager' = connect([manager EXCEPT !.timers = @ \ {t}])
  /\ UNCHANGED offManager

Disconnect ==
  /\ manager' = disconnect(manager)
  /\ manager' # manager
  /\ UNCHANGED offManager

SocketOpens(i) ==
  /\ manager.sockets[i].readyState = "CONNECTING"
  /\ manager' = onopen([manager EXCEPT !.sockets[i].readyState = "OPEN"])
  /\ UNCHANGED offManager

SocketCloses(i, code) ==
  /\ manager.sockets[i].readyState # "CLOSED"
  /\ code \in CloseCodes(manager, i)
  /\ manager' = onclose([manager EXCEPT !.sockets[i].readyState = "CLOSED"], code)
  /\ UNCHANGED offManager

SendMessage ==
  /\ manager.sends < MaxSends
  /\ manager' = sendMessage(manager)
  /\ UNCHANGED offManager

NextManager ==
  \/ Connect
  \/ ReconnectTimeout
  \/ Disconnect
  \/ \E i \in DOMAIN manager.sockets : SocketOpens(i)
  \/ \E i \in DOMAIN manager.sockets :
       \E code \in {NORMAL_CLOSURE, GOING_AWAY, NO_STATUS_RECEIVED, ABNORMAL_CLOSURE} :
         SocketCloses(i, code)
  \/ SendMessage

SpecManager == InitManager /\ [][NextManager]_vars

(* ------------------- one call of submitUserMessage --------------------- *)

\* What submitUserMessage can be passed: nothing, a blank, and two texts.
UserTexts == {<<>>, <<" ">>, <<"h", "i">>, <<" ", "h", "i", " ">>}

\* The timers, fired
Tick(c) == animationLoop([c EXCEPT !.animationTimeoutRef = FALSE])
Finalize(c) == finalizeAnimation([c EXCEPT !.finalizationTimeoutRef = FALSE])

\* States of useChatHandler along one turn, each made from the one before by
\* one handler: a submission, 'processing', a chunk, the loop showing one
\* character, 'idle', the loop run dry, the finalization, and the turn
\* completed (speech started, animation 'jump'); and a turn ended by 'error'.
Turn ==
  LET s1 == ChatConsole_handleKeyDown(NoClient)
      s2 == case_processing(s1)
      s3 == case_chunk(s2, Obj(<<"A", "B">>, "happy"))
      s4 == Tick(s3)
      s5 == case_idle(s4)
      s6 == Tick(s5)
      s7 == Tick(s6)
      s8 == Finalize(s7)
  IN  <<s1, s2, s3, s4, s5, s6, s7, s8, case_error(s4, Text(<<"failed">>))>>

ClientSnapshots == {NoClient} \cup {Turn[k] : k \in DOMAIN Turn}

InitSubmit ==
  /\ Start
  /\ limit = Limit(0, 0, 0, 0)
  /\ ParserIdle
  /\ BufferedIdle
  /\ ReaderIdle
  /\ ManagerIdle
  /\ wire = NoWire
  /\ client \in ClientSnapshots

\* submitUserMessage(userText) is called, by ChatConsole or by anything else
\* that holds the hook.
SubmitUserMessage(userText) ==
  /\ manager.sends < MaxSends
  /\ LET after == submitUserMessage_call(client, manager, userText)
     IN  client' = after.client /\ manager' = after.manager
  /\ UNCHANGED <<sessionVars, parserVars, buffered, wire, reader>>

NextSubmit ==
  \/ NextManager
  \/ \E userText \in UserTexts : SubmitUserMessage(userText)

SpecSubmit == InitSubmit /\ [][NextSubmit]_vars

(* ------------------- one call of the buffered variant ------------------ *)

InitBuffered ==
  /\ Start /\ limit = Limit(0, 0, CallReads, CallLines)
  /\ ParserIdle
  /\ ClientIdle
  /\ ManagerIdle
  /\ ReaderIdle
  /\ buffered = callAIServiceAndGetResponse(configured)

BufPostSettles(outcome) ==
  /\ buffered.pc = "post"
  /\ buffered' = buf_PostSettles(buffered, outcome)
  /\ UNCHANGED offBuffered

BufRetryDelayElapsed ==
  /\ buffered.pc = "delay"
  /\ buffered' = buf_NextAttempt(buffered)
  /\ UNCHANGED offBuffered

BufStreamRead(lines) ==
  /\ buffered.pc = "stream"
  /\ buffered.reads < limit.reads
  /\ buffered' = buf_StreamRead(buffered, lines)
  /\ UNCHANGED offBuffered

BufStreamEnds ==
  /\ buffered.pc = "stream"
  /\ buffered' = buf_StreamEnds(buffered)
  /\ UNCHANGED offBuffered

BufStreamThrows ==
  /\ buffered.pc = "stream"
  /\ buffered' = buf_StreamThrows(buffered)
  /\ UNCHANGED offBuffered

NextBuffered ==
  \/ \E outcome \in PostOutcomes : BufPostSettles(outcome)
  \/ BufRetryDelayElapsed
  \/ \E n \in 1..limit.lines : \E lines \in [1..n -> BufLines] : BufStreamRead(lines)
  \/ BufStreamEnds
  \/ BufStreamThrows

SpecBuffered == InitBuffered /\ [][NextBuffered]_vars

(* --------------------- the parser applied to one text ------------------ *)

\* The pieces texts are put together from: white space, plain text, the
\* tag for one word (a keyword, a keyword in another letter case, or a word
\* outside the set) as the prompt writes it and with a capital, and the
\* opening and the closing of a tag on their own.
Words ==
  EMOTION_KEYWORDS
    \cup { <<"H","a","p","p","y">>, <<"S","A","D">>, <<"x","y","z">>,
           <<"s","a","d","_","1">> }

Tag(w) == TagOpen \o w \o <<"]">>
CapitalTag(w) == <<"[","E","m","o","t","i","o","n",":">> \o w \o <<"]">>

Pieces(w) == { <<" ">>, <<"o","k">>, Tag(w), CapitalTag(w), TagOpen, <<"]">> }

RECURSIVE Join(_)
Join(parts) == IF parts = <<>> THEN <<>> ELSE Head(parts) \o Join(Tail(parts))

InitParse ==
  /\ Start /\ limit = Limit(0, 0, 0, 0)
  /\ BufferedIdle
  /\ ClientIdle
  /\ ManagerIdle
  /\ ReaderIdle
  /\ \E w \in Words, n \in 0..MaxParts :
       \E parts \in [1..n -> Pieces(w)] : fullText = Join(parts)
  /\ payload = NoPayload

Parse ==
  /\ payload = NoPayload
  /\ payload' = parseResponse(fullText)
  /\ UNCHANGED <<fullText, offParser>>

NextParse == Parse

SpecParse == InitParse /\ [][NextParse]_vars

(* ------------ aiService.ts: the lines of one response stream ----------- *)

\* The response is a sequence of bytes, read in pieces. A byte string that the
\* model never splits is one element: the prefix of a data record, the [DONE]
\* marker, the JSON text before and after the content of a token delta, and
\* the JSON text of an error object. The content of a delta is "a" or the
\* character e-acute, whose UTF-8 encoding is the two bytes c3 a9.
DATA == "data: "
DONE == "[DONE]"
DELTA_OPEN == "{choices:[{delta:{content:"
DELTA_CLOSE == "}}]}"
ERROR_OBJECT == "{error:{message:x}}"
EOL == "\n"

Record(kind) ==
  CASE kind = "delta" -> <<DATA, DELTA_OPEN, "a", DELTA_CLOSE, EOL>>
    [] kind = "delta2" -> <<DATA, DELTA_OPEN, "c3", "a9", DELTA_CLOSE, EOL>>
    [] kind = "done" -> <<DATA, DONE, EOL>>
    [] kind = "error" -> <<DATA, ERROR_OBJECT, EOL>>
    [] OTHER -> <<": ping", EOL>>

RecordKinds == {"delta", "delta2", "done", "error", "skip"}

\* chunk.toString(): UTF-8 decoding of one piece on its own. A byte sequence
\* that is not complete inside the piece becomes U+FFFD.
RECURSIVE toString(_)
toString(chunk) ==
  IF chunk = <<>> THEN <<>>
  ELSE IF Head(chunk) = "c3"
       THEN IF Len(chunk) >= 2 /\ chunk[2] = "a9"
            THEN <<"e-acute">> \o toString(SubSeq(chunk, 3, Len(chunk)))
            ELSE <<"U+FFFD">> \o toString(Tail(chunk))
       ELSE IF Head(chunk) = "a9"
            THEN <<"U+FFFD">> \o toString(Tail(chunk))
            ELSE <<Head(chunk)>> \o toString(Tail(chunk))

\* buffer.indexOf('\n'), counted from 1; 0 when there is none
indexOf(buffer) ==
  LET at == {i \in DOMAIN buffer : buffer[i] = EOL}
  IN  IF at = {} THEN 0 ELSE CHOOSE i \in at : \A j \in at : i <= j

\* What JSON.parse(dataContent) and the tests on the result come to.
Structural == {DATA, DONE, DELTA_OPEN, DELTA_CLOSE, ERROR_OBJECT, EOL}

IsDelta(dataContent) ==
  /\ Len(dataContent) >= 2
  /\ Head(dataContent) = DELTA_OPEN
  /\ dataContent[Len(dataContent)] = DELTA_CLOSE
  /\ \A i \in 2..(Len(dataContent) - 1) : dataContent[i] \notin Structural

IsError(dataContent) == dataContent = <<ERROR_OBJECT>>

\* The while loop without the break after an embedded error
RECURSIVE whileLoop_NoBreak(_, _)
whileLoop_NoBreak(c, buffer) ==
  LET eolIndex == indexOf(buffer)
      line == trim(SubSeq(buffer, 1, eolIndex - 1))
      rest == SubSeq(buffer, eolIndex + 1, Len(buffer))
      dataContent == Tail(line)
  IN  IF eolIndex = 0 THEN [c |-> c, buffer |-> buffer]
      ELSE IF line # <<>> /\ Head(line) = DATA
           THEN IF dataContent = <<DONE>> THEN whileLoop_NoBreak(c, rest)
                ELSE IF IsDelta(dataContent)
                     THEN whileLoop_NoBreak(
                            onChunk(c, SubSeq(dataContent, 2, Len(dataContent) - 1)),
                            rest)
                     ELSE IF IsError(dataContent)
                          THEN whileLoop_NoBreak(ai_handleError(c), rest)
                          ELSE whileLoop_NoBreak(c, rest)
           ELSE whileLoop_NoBreak(c, rest)

\* while ((eolIndex = buffer.indexOf('\n')) >= 0) { ... }
RECURSIVE whileLoop(_, _)
whileLoop(c, buffer) ==
  LET eolIndex == indexOf(buffer)
      line == trim(SubSeq(buffer, 1, eolIndex - 1))
      rest == SubSeq(buffer, eolIndex + 1, Len(buffer))
      dataContent == Tail(line)
  IN  IF eolIndex = 0 THEN [c |-> c, buffer |-> buffer]
      ELSE IF line # <<>> /\ Head(line) = DATA
           THEN IF dataContent = <<DONE>> THEN whileLoop(c, rest)
                ELSE IF IsDelta(dataContent)
                     THEN whileLoop(
                            onChunk(c, SubSeq(dataContent, 2, Len(dataContent) - 1)),
                            rest)
                     ELSE IF IsError(dataContent)
                          THEN [c |-> [ai_handleError(c) EXCEPT !.streamClosed = TRUE],
                                buffer |-> rest]
                          ELSE whileLoop(c, rest)
           ELSE whileLoop(c, rest)

\* The body of the for await loop for one piece.
forAwait(r, chunk) ==
  IF r.c.streamClosed THEN [r EXCEPT !.pc = "aborted"]
  ELSE LET after == whileLoop([r.c EXCEPT !.reads = @ + 1],
                              r.buffer \o toString(chunk))
       IN  [r EXCEPT !.c = after.c,
                     !.buffer = after.buffer,
                     !.pc = IF after.c.streamClosed THEN "aborted" ELSE "stream"]

\* The pieces of bytes cut after positions a and b.
Pieces3(bytes, a, b) ==
  LET all == <<SubSeq(bytes, 1, a), SubSeq(bytes, a + 1, b),
               SubSeq(bytes, b + 1, Len(bytes))>>
  IN  SelectSeq(all, LAMBDA p : p # <<>>)

\* A response of up to MaxRecords records arrives in up to three pieces;
\* kinds and pieces are kept for reference.
InitStream ==
  /\ Start
  /\ limit = Limit(0, 0, CallReads, 0)
  /\ ParserIdle
  /\ BufferedIdle
  /\ ClientIdle
  /\ ManagerIdle
  /\ \E n \in 1..MaxRecords :
       \E kinds \in [1..n -> RecordKinds] :
         LET bytes == Join([i \in 1..n |-> Record(kinds[i])])
         IN  \E a \in 0..Len(bytes) : \E b \in a..Len(bytes) :
               reader = [pc |-> "stream",
                         c |-> PostSettles(callExternalAIServiceStream(TRUE), "ok"),
                         buffer |-> <<>>,
                         pending |-> Pieces3(bytes, a, b),
                         kinds |-> kinds,
                         pieces |-> Pieces3(bytes, a, b)]

\* The stream yields its next piece.
StreamYields ==
  /\ reader.pc = "stream"
  /\ reader.pending # <<>>
  /\ reader' = forAwait([reader EXCEPT !.pending = Tail(@)], Head(reader.pending))
  /\ UNCHANGED offReader

\* The stream ends: the code after the for await loop.
StreamIsOver ==
  /\ reader.pc = "stream"
  /\ reader.pending = <<>>
  /\ reader' = [reader EXCEPT !.c = ai_handleEnd(@), !.pc = "ended"]
  /\ UNCHANGED offReader

NextStream == StreamYields \/ StreamIsOver

SpecStream == InitStream /\ [][NextStream]_vars

(* ------------------------------ properties ----------------------------- *)

Count(log, t) == Cardinality({k \in DOMAIN log : log[k].type = t})
HasProcessing(log) == log # <<>> /\ log[1].type = "processing"
IsChat(frame) == frame \in {"chat", "chatBadPayload"}

\* A frame of type 'chat' is accepted in this step: 'processing' goes out.
AcceptStep == ~isAIProcessing /\ \E frame \in Frames : IsChat(frame) /\ OnMessage(frame)

\* C1: on a connection that stays open, every 'processing' is followed by
\* exactly one 'idle' before the next 'processing': never a second 'idle' in
\* the turn, and never a new 'processing' with the last turn's 'idle' missing.
C1_OneIdlePerProcessing ==
  [][ /\ Count(sent', "idle") <= 1
      /\ (AcceptStep /\ HasProcessing(sent)) => Count(sent, "idle") = 1 ]_vars

\* C2: at most one upstream call of the session has not yet fired its done
\* signal.
InFlight == {i \in DOMAIN calls : calls[i].nEnd = 0}
C2_AtMostOneInFlight == Cardinality(InFlight) <= 1

\* C3: a chat request that arrives while isAIProcessing is true sends the one
\* 'error' (busy) and nothing else, starts no upstream call and leaves
\* isAIProcessing true.
C3_BusyRejected ==
  [][ \A frame \in Frames :
        (isAIProcessing /\ IsChat(frame) /\ OnMessage(frame)) =>
          /\ sent' = Append(sent, Msg("error", "busy"))
          /\ calls' = calls
          /\ isAIProcessing' ]_vars

C3_Witness ==
  /\ isAIProcessing
  /\ calls # <<>> /\ calls[1].pc = "post"
  /\ \E k \in DOMAIN sent : sent[k] = Msg("error", "busy")

\* --- steps of the upstream calls, as the session sees them

Open == ~isConnectionClosed /\ readyState = "OPEN"

\* A call resumed in this step (no call starts in such a step).
Resumed(i) == i \in DOMAIN calls /\ nFrames' = nFrames /\ calls'[i] # calls[i]
\* A call started in this step: it is the last one afterwards.
Started == nFrames' = nFrames + 1 /\ calls' # calls

\* This step fired the error callback of a call.
ErrorStep ==
  \/ \E i \in DOMAIN calls : Resumed(i) /\ calls'[i].nError > calls[i].nError
  \/ Started /\ calls'[Len(calls')].nError > 0

\* This step fired the done callback of a call that fired no error callback.
SuccessStep ==
  \E i \in DOMAIN calls :
    Resumed(i) /\ calls[i].nEnd = 0 /\ calls'[i].nEnd = 1 /\ calls'[i].nError = 0

\* The frames this step sent.
SentNow == IF Started THEN sent' ELSE SubSeq(sent', Len(sent) + 1, Len(sent'))

AllReturned == \A i \in DOMAIN calls : Returned(calls[i])

\* C4: when the upstream call fails on an open connection the session sends
\* 'error' and then 'idle' and isAIProcessing is false afterwards; on a
\* connection not marked closed isAIProcessing is never true once every
\* upstream call has returned.
C4_FailureEndsTurn ==
  [][ /\ (Open /\ ErrorStep) =>
           /\ \E k \in 1..(Len(SentNow) - 1) :
                /\ SentNow[k] = Msg("error", "ai")
                /\ SentNow[k + 1] = Msg("idle", "")
           /\ ~isAIProcessing'
      /\ (~isConnectionClosed' /\ AllReturned') => ~isAIProcessing' ]_vars

C4_Witness ==
  /\ Open /\ ~isAIProcessing
  /\ \E i \in DOMAIN calls :
       /\ Returned(calls[i]) /\ calls[i].nError = 1
       /\ calls[i].hist \in {<<"fatal">>, <<"retryable", "retryable", "retryable">>}
  /\ \E k \in DOMAIN sent : sent[k] = Msg("error", "ai")

AllRetryable(h) == \A j \in DOMAIN h : h[j] = "retryable"
Front(h) == SubSeq(h, 1, Len(h) - 1)

\* C6: when the first k requests (k = 1 or 2) fail with a 5xx response or with
\* no response and request k+1 returns a stream that ends normally, the call
\* has made k+1 requests, fired no error callback and fired the done callback
\* once; a session that received this one chat request on a connection that
\* is still open has sent one 'processing' and one 'idle'.
RetriedThenEnded(c) ==
  /\ Len(c.hist) \in {2, 3}
  /\ AllRetryable(Front(c.hist))
  /\ c.hist[Len(c.hist)] = "streamEnd"

C6_RetryThenSuccess ==
  \A i \in DOMAIN calls :
    RetriedThenEnded(calls[i]) =>
      /\ calls[i].posts = Len(calls[i].hist)
      /\ calls[i].nError = 0
      /\ calls[i].nEnd = 1
      /\ Returned(calls[i])
      /\ (nFrames = 1 /\ Open) =>
           Count(sent, "processing") = 1 /\ Count(sent, "idle") = 1

C6_Witness ==
  /\ nFrames = 1 /\ Open
  /\ calls # <<>> /\ calls[1].hist = <<"retryable", "retryable", "streamEnd">>
  /\ calls[1].posts = 3
  /\ Count(sent, "idle") = 1

\* C7: a request that fails with a non-retryable condition (after retryable
\* failures only) is the call's last request, and the error callback has fired
\* by the time the failure is handled: one request and one error callback when
\* it is the first request.  With no API URL or key the call makes no request
\* and fires the error callback.
C7_FatalNotRetried ==
  \A i \in DOMAIN calls :
    LET c == calls[i]
    IN  /\ (c.hist # <<>> /\ c.hist[Len(c.hist)] = "fatal" /\ AllRetryable(Front(c.hist))) =>
             /\ c.posts = Len(c.hist)
             /\ c.nError = 1
             /\ Returned(c)
        /\ ~configured => (c.posts = 0 /\ c.nError = 1 /\ Returned(c))

C7_Witness ==
  \E i \in DOMAIN calls :
    calls[i].hist = <<"fatal">> /\ calls[i].posts = 1 /\ calls[i].nError = 1

\* C8: a request after the first is issued only when the request before it
\* failed with a retryable condition.
C8_RetryOnlyRetryable ==
  \A i \in DOMAIN calls :
    \A j \in 1..(calls[i].posts - 1) : calls[i].hist[j] = "retryable"

\* C9: a call issues at most three requests; in a call that has issued a
\* request and whose finished requests all failed with a retryable condition,
\* the error callback has fired once if three have failed and not at all if
\* fewer have.
C9_BoundedRetries ==
  \A i \in DOMAIN calls :
    /\ calls[i].posts <= 3
    /\ (calls[i].posts > 0 /\ AllRetryable(calls[i].hist)) =>
         calls[i].nError = (IF Len(calls[i].hist) = 3 THEN 1 ELSE 0)

C9_Witness ==
  \E i \in DOMAIN calls :
    /\ calls[i].hist = <<"retryable", "retryable", "retryable">>
    /\ calls[i].posts = 3 /\ calls[i].nError = 1

\* C10: a call fires the done callback exactly once (never twice, and once by
\* the time it returns), fires the error callback at most once, and fires no
\* error or chunk callback after the done callback.
C10_DoneOnce ==
  \A i \in DOMAIN calls :
    /\ calls[i].nEnd <= 1
    /\ calls[i].nError <= 1
    /\ ~calls[i].late
    /\ Returned(calls[i]) => calls[i].nEnd = 1

C10_Witness ==
  \E i \in DOMAIN calls :
    /\ Returned(calls[i]) /\ calls[i].nEnd = 1 /\ calls[i].nError = 1
    /\ calls[i].attempt > MAX_RETRIES
    /\ calls[i].hist[1] = "streamError"

\* C12: once isConnectionClosed is set, no step of the session hands anything
\* to ws.send and none puts text into the buffer: the callbacks of the
\* upstream calls that are still running are dropped.
C12_NothingSentOnceClosed ==
  [][isConnectionClosed => (sent' = sent /\ messageBuffer' = messageBuffer)]_vars

\* The connection closed while the one call was running (the flag is still
\* set), and the call has since fired its error and done callbacks.
C12_Witness ==
  /\ isConnectionClosed /\ isAIProcessing /\ nFrames = 1
  /\ Len(calls) = 1 /\ Returned(calls[1])
  /\ calls[1].nError = 1 /\ calls[1].nEnd = 1
  /\ sent = <<Msg("processing", "")>>

(* -------------------------- the buffered variant ----------------------- *)

\* C11: a call of callAIServiceAndGetResponse fires onComplete or onError,
\* never both and never one of them twice, then onEnd once and nothing
\* after it; by the time it returns it has fired one of the two and onEnd.
C11_OneOutcomeThenEnd ==
  /\ buffered.pc # "none" =>
        buffered.fired \in {<<>>, <<"complete", "end">>, <<"error", "end">>}
  /\ buffered.pc = "done" => buffered.fired # <<>>

\* The first request failed with a retryable condition, the second returned
\* a stream whose text ended with a tag.
C11_Witness ==
  /\ buffered.pc = "done" /\ buffered.posts = 2
  /\ buffered.fired = <<"complete", "end">>
  /\ buffered.result = [text |-> <<"o","k">>, emotion |-> <<"s","a","d">>]

(* ------------------------------ the parser ----------------------------- *)

Parsed == payload # NoPayload

RECURSIVE StripLeft(_)
StripLeft(t) ==
  IF t # <<>> /\ Head(t) \in WhiteSpace THEN StripLeft(Tail(t)) ELSE t

RECURSIVE StripRight(_)
StripRight(t) ==
  IF t # <<>> /\ t[Len(t)] \in WhiteSpace
  THEN StripRight(SubSeq(t, 1, Len(t) - 1))
  ELSE t

Stripped(t) == StripLeft(StripRight(t))

\* t ends with the tag for word w, written as the prompt writes it
EndsWithTag(t, w) ==
  /\ Len(t) >= Len(w) + 10
  /\ SubSeq(t, Len(t) - Len(w) - 9, Len(t)) = <<"[","e","m","o","t","i","o","n",":">> \o w \o <<"]">>

BeforeTag(t, w) == SubSeq(t, 1, Len(t) - Len(w) - 10)

\* the text, trimmed, ends with the tag of a keyword in some letter case
ValidTag(t) ==
  LET lower == toLowerCase(Stripped(t))
  IN  \E k \in EMOTION_KEYWORDS : EndsWithTag(lower, k)

\* C13: when the trimmed text ends with [emotion:w] and w in lower case is a
\* keyword, the emotion returned is w in lower case and the text returned is
\* the trimmed text without the tag and without the white space before it.
C13_ValidTagExtracted ==
  Parsed =>
    LET trimmed == Stripped(fullText)
    IN  \A w \in Words :
          (toLowerCase(w) \in EMOTION_KEYWORDS /\ EndsWithTag(trimmed, w)) =>
            /\ payload.emotion = toLowerCase(w)
            /\ payload.text = StripRight(BeforeTag(trimmed, w))

C13_Witness ==
  /\ fullText = <<"o", "k", " ">> \o Tag(<<"H","a","p","p","y">>) \o <<" ">>
  /\ payload = [text |-> <<"o", "k">>, emotion |-> <<"h","a","p","p","y">>]

\* C14 as claimed: a text without a trailing tag, or whose trailing tag has a
\* word outside the keyword set, is returned as it was given, with the
\* emotion neutral.
C14_TextUntouched ==
  (Parsed /\ ~ValidTag(fullText)) =>
    payload = [text |-> fullText, emotion |-> Neutral]

\* C14 as amended: such a text is returned with the white space at its two
\* ends removed and otherwise as it was given (the tag left in place), with
\* the emotion neutral.
C14_TextTrimmedOnly ==
  (Parsed /\ ~ValidTag(fullText)) =>
    payload = [text |-> Stripped(fullText), emotion |-> Neutral]

C14_Witness ==
  /\ fullText = <<" ", "o", "k">> \o Tag(<<"x","y","z">>)
  /\ payload = [text |-> <<"o", "k">> \o Tag(<<"x","y","z">>), emotion |-> Neutral]

\* C15: a trailing tag in any letter case, of the word 'emotion' as well as
\* of the keyword, yields the keyword in lower case.
C15_CaseInsensitiveTag ==
  Parsed =>
    LET lower == toLowerCase(Stripped(fullText))
    IN  \A k \in EMOTION_KEYWORDS : EndsWithTag(lower, k) => payload.emotion = k

\* C16: the emotion returned is one of the eight keywords.
C16_EmotionInClosedSet == Parsed => payload.emotion \in EMOTION_KEYWORDS

C16_Witness ==
  /\ fullText = <<"o", "k">> \o Tag(<<"s","a","d","_","1">>)
  /\ payload.emotion = Neutral

(* ------------------------------ the client ----------------------------- *)

\* The text displayed for message id, and <<>> when there is no such message.
Displayed(c, id) ==
  LET ks == {k \in DOMAIN c.chatHistory : c.chatHistory[k].id = id}
  IN  IF ks = {} THEN <<>> ELSE c.chatHistory[CHOOSE k \in ks : TRUE].text

IsPrefix(s, t) == Len(s) <= Len(t) /\ s = SubSeq(t, 1, Len(s))

\* This step of the pacing loop takes the first queued character and appends it
\* to the text of history entry k.
Paced(k) ==
  /\ client.characterQueueRef # <<>>
  /\ client'.characterQueueRef = Tail(client.characterQueueRef)
  /\ k \in DOMAIN client.chatHistory
  /\ client'.chatHistory[k].text =
       client.chatHistory[k].text \o <<Head(client.characterQueueRef)>>

\* C17: within one turn, while only chunks and 'idle' are handled, the text
\* displayed for the turn's message grows by one character per pacing step, is
\* always a prefix of the chunk texts joined in arrival order, and equals that
\* join when the turn is declared complete.
C17_PacedPrefixOfChunks ==
  /\ client.turnId # Null /\ client.currentBotMessageId = client.turnId
       => IsPrefix(Displayed(client, client.turnId), client.arrived)
  /\ \A n \in DOMAIN client.completions :
       client.completions[n].id = client.turnId
         => Displayed(client, client.turnId) = client.arrived

\* C18: a character queued for one turn is never appended to the message of
\* another turn.
C18_NoLeftoverCharacterApplied ==
  [][\A k \in DOMAIN client.chatHistory :
       Paced(k) => Head(client.queuedFor) = client.chatHistory[k].id]_vars

\* C19: once the 'processing' of a new turn has been handled, no text is
\* appended to a bot message of an earlier turn.
C19_NoWriteToSupersededMessage ==
  [][\A k \in DOMAIN client.chatHistory :
       (client.chatHistory[k].sender = "bot" /\ client.chatHistory[k].id # client.turnId)
         => client'.chatHistory[k] = client.chatHistory[k]]_vars

\* A new 'processing' was handled while characters of an earlier turn were
\* still queued, and the pacing loop has written since then.
C19_Witness ==
  /\ client.currentBotMessageId = client.turnId
  /\ Displayed(client, client.turnId) # <<>>
  /\ \E k \in DOMAIN client.chatHistory :
       /\ client.chatHistory[k].sender = "bot"
       /\ client.chatHistory[k].id # client.turnId
       /\ client.chatHistory[k].text # <<>>
       /\ \E n \in DOMAIN client.queuedFor :
            client.queuedFor[n] = client.chatHistory[k].id

\* C20: the current message id goes from set to null only when the character
\* queue is empty and isStreamComplete is true.
C20_IdClearedOnlyWhenDrained ==
  [][(client.currentBotMessageId # Null /\ client'.currentBotMessageId = Null)
       => (client.characterQueueRef = <<>> /\ client.isStreamCompleteRef)]_vars

\* This step calls onAnimationComplete.
Completes == Len(client'.completions) > Len(client.completions)

\* C21: onAnimationComplete fires at most once per message id, and when it
\* fires the character queue is empty and isStreamComplete is true.
C21_CompleteOnceWhenDrained ==
  [][Completes =>
       /\ client.characterQueueRef = <<>>
       /\ client.isStreamCompleteRef
       /\ \A n \in DOMAIN client.completions :
            client.completions[n].id # client.currentBotMessageId]_vars

\* This step handles a frame of the given type.
Handles(type) ==
  /\ wire.inbox # <<>>
  /\ Head(wire.inbox).type = type
  /\ wire'.inbox = Tail(wire.inbox)

Range(t) == {t[i] : i \in DOMAIN t}

\* The pacing loop has no timer pending.
Halted(c) == ~c.animationTimeoutRef /\ ~c.finalizationTimeoutRef

\* The bot messages that show an error text.
Failed(c) ==
  {c.chatHistory[k].id : k \in {j \in DOMAIN c.chatHistory :
     c.chatHistory[j].sender = "bot" /\ "Error: " \in Range(c.chatHistory[j].text)}}

\* C22: handling 'error' stops the pacing loop, sets isBotProcessing to false,
\* clears the message id and the accumulator and calls no completion; the loop
\* stays stopped while no message id is set, that is until the next
\* 'processing'; and no message that shows an error is ever completed.
C22_ErrorHaltsTurn ==
  /\ [][Handles("error") =>
          /\ Halted(client')
          /\ ~client'.isBotProcessing
          /\ client'.currentBotMessageId = Null
          /\ client'.accumulatedBotResponse = <<>>
          /\ client'.completions = client.completions]_vars
  /\ [](client.currentBotMessageId = Null => Halted(client))
  /\ [](\A n \in DOMAIN client.completions :
          client.completions[n].id \notin Failed(client))

\* An 'error' was handled in the middle of pacing: part of the text is shown,
\* the rest is still queued.
C22_Witness ==
  /\ Failed(client) # {}
  /\ client.characterQueueRef # <<>>
  /\ client.currentBotMessageId = Null
  /\ \E k \in DOMAIN client.chatHistory :
       /\ client.chatHistory[k].id \in Failed(client)
       /\ Len(client.chatHistory[k].text) >= 2

\* C23: handling 'idle' sets isStreamComplete to true and changes nothing
\* else: not the queue, the message id, the accumulator, the displayed text or
\* isBotProcessing.
C23_IdleOnlyMarksStreamComplete ==
  [][Handles("idle") =>
       /\ client'.isStreamCompleteRef
       /\ client'.characterQueueRef = client.characterQueueRef
       /\ client'.currentBotMessageId = client.currentBotMessageId
       /\ client'.accumulatedBotResponse = client.accumulatedBotResponse
       /\ client'.chatHistory = client.chatHistory
       /\ client'.isBotProcessing = client.isBotProcessing
       /\ client'.animationTimeoutRef = client.animationTimeoutRef
       /\ client'.completions = client.completions]_vars

\* 'idle' was handled while characters were still queued, and they still are.
C23_Witness ==
  /\ client.isStreamCompleteRef
  /\ client.isBotProcessing
  /\ client.currentBotMessageId # Null
  /\ client.characterQueueRef = <<"B">>
  /\ Displayed(client, client.currentBotMessageId) = <<"A">>
  /\ wire.inbox = <<>>

\* The playback state of the client.
Playback(c) == <<c.characterQueueRef, c.accumulatedBotResponse, c.isStreamCompleteRef>>

\* C24: from every state with an active message id, handling fullResponse with
\* a non-empty text leaves the queue, the accumulator and isStreamComplete as
\* handling a chunk with that text and then setting isStreamComplete does.
C24_FullResponseIsLastChunk ==
  client.currentBotMessageId # Null =>
    \A body \in {b \in ChunkPayloads : b.kind = "object" /\ b.text # <<>>} :
      Playback(case_fullResponse(client, body)) =
        Playback([case_chunk(client, body) EXCEPT !.isStreamCompleteRef = TRUE])

(* ------------------------ the connection manager ----------------------- *)

\* This step is the close event of socket i.
Closes(i) ==
  /\ manager.sockets[i].readyState # "CLOSED"
  /\ manager'.sockets[i].readyState = "CLOSED"

\* C25: the close event of a socket that disconnect() did not close schedules
\* exactly one reconnect, whatever its close code.
C25_UnexpectedCloseReconnects ==
  [][\A i \in DOMAIN manager.sockets :
       (Closes(i) /\ ~manager.sockets[i].manual)
         => /\ manager'.nextTimer = manager.nextTimer + 1
            /\ manager'.reconnectTimeoutRef \in manager'.timers]_vars

\* C26: the close event of a socket that disconnect() closed schedules no
\* reconnect, whatever state the socket was in and whatever its close code.
C26_ManualCloseNeverReconnects ==
  [][\A i \in DOMAIN manager.sockets :
       (Closes(i) /\ manager.sockets[i].manual)
         => /\ manager'.nextTimer = manager.nextTimer
            /\ manager'.timers = manager.timers]_vars

\* C27: a call of sendMessage transmits exactly when a socket is held and
\* open, and nothing is transmitted at any other time.
C27_SendOnlyWhenOpen ==
  [][IF manager'.sends # manager.sends
     THEN manager'.transmitted = manager.transmitted + (IF IsOpen(manager) THEN 1 ELSE 0)
     ELSE manager'.transmitted = manager.transmitted]_vars

\* A message was dropped, the connection is open now, and nothing was sent.
C27_Witness ==
  /\ manager.sends = 1
  /\ manager.transmitted = 0
  /\ IsOpen(manager)
  /\ manager.isConnected

(* --------------------------- the response stream ----------------------- *)

\* The token deltas forwarded so far, in order.
Forwarded(c) ==
  LET chunks == SelectSeq(c.out, LAMBDA cb : cb.k = "chunk")
  IN  [i \in DOMAIN chunks |-> chunks[i].v]

\* The stream has been read to its end or abandoned.
Over == reader.pc \in {"ended", "aborted"}

\* The same bytes delivered as one piece, read to the end.
InOnePiece ==
  forAwait([reader EXCEPT !.c = PostSettles(callExternalAIServiceStream(TRUE), "ok"),
                           !.buffer = <<>>, !.pc = "stream"],
           Join(reader.pieces))

\* The position of the first record of one of the kinds, or one past the end.
FirstOf(kinds, K) ==
  LET at == {i \in DOMAIN kinds : kinds[i] \in K}
  IN  IF at = {} THEN Len(kinds) + 1 ELSE CHOOSE i \in at : \A j \in at : i <= j

\* The number of token deltas among the records before position n.
DeltasBefore(kinds, n) ==
  Cardinality({i \in DOMAIN kinds : i < n /\ kinds[i] \in {"delta", "delta2"}})

\* C28: the token deltas forwarded depend only on the bytes of the response,
\* not on how the reads cut them.
C28_SplitIndependent ==
  Over => Forwarded(reader.c) = Forwarded(InOnePiece.c)

\* C29: when the response holds a [DONE] record (and no error record before
\* it), only the token deltas before it are forwarded, and the call ends with
\* one onEnd and no onError.
C29_DoneEndsStream ==
  (Over /\ FirstOf(reader.kinds, {"done"}) < FirstOf(reader.kinds, {"error"}))
    => /\ Len(Forwarded(reader.c)) = DeltasBefore(reader.kinds, FirstOf(reader.kinds, {"done"}))
       /\ reader.c.nError = 0
       /\ reader.c.nEnd = 1

\* C30: when the response holds an error record, onError fires once and only
\* the token deltas before that record are forwarded.
C30_ErrorRecordAborts ==
  (Over /\ "error" \in Range(reader.kinds))
    => /\ reader.c.nError = 1
       /\ reader.c.nEnd = 1
       /\ Len(Forwarded(reader.c)) = DeltasBefore(reader.kinds, FirstOf(reader.kinds, {"error"}))

\* An error record between two token deltas, the later delta in a piece that
\* was never read.
C30_Witness ==
  /\ reader.pc = "aborted"
  /\ reader.kinds = <<"delta", "error", "delta">>
  /\ reader.pending # <<>>
  /\ reader.c.nError = 1

(* ---------------- the connection flag and the socket held --------------- *)

\* C40: isConnected is true only while the manager holds a socket that is
\* open, so that a sendMessage called while isConnected is true transmits;
\* also when the close event of an old socket arrives after a new socket was
\* created.
C40_ConnectedMeansOpenSocketHeld ==
  manager.isConnected => IsOpen(manager)

(* ------------------- the session's turn, frame by frame ----------------- *)

\* This step sent 'idle'.
IdleNow == \E k \in DOMAIN SentNow : SentNow[k].type = "idle"

\* C34: 'idle' is sent and isAIProcessing is reset only in a step after which
\* no upstream call of the session is still running; a malformed or unknown
\* frame that arrives while a call is running sends no 'idle' and leaves
\* isAIProcessing true.
C34_IdleOnlyWhenNoCallRuns ==
  [][ /\ \A frame \in {"malformed", "unknown"} :
           (isAIProcessing /\ ~AllReturned /\ OnMessage(frame)) =>
             (isAIProcessing' /\ ~IdleNow)
      /\ (IdleNow \/ (isAIProcessing /\ ~isAIProcessing')) => AllReturned' ]_vars

\* C35: a well-formed chat request that arrives while isAIProcessing is false
\* sends 'processing' as the first frame of the turn, ahead of every chunk,
\* starts exactly one upstream call, which has issued at most its first
\* request by the end of the step, and leaves isAIProcessing true for as long
\* as that call has not returned.
C35_ProcessingThenOneCall ==
  [][ (~isAIProcessing /\ OnMessage("chat")) =>
        /\ sent' # <<>> /\ sent'[1] = Msg("processing", "")
        /\ \A k \in 2..Len(sent') : sent'[k].type # "processing"
        /\ Len(calls') = Len(Running) + 1
        /\ SubSeq(calls', 1, Len(Running)) = Running
        /\ calls'[Len(calls')].posts <= 1
        /\ isAIProcessing' = ~Returned(calls'[Len(calls')]) ]_vars

\* The request was accepted: 'processing' is all that was sent, and the one
\* call awaits its first request.
C35_Witness ==
  /\ isAIProcessing /\ nFrames = 1
  /\ sent = <<Msg("processing", "")>>
  /\ Len(calls) = 1 /\ calls[1].pc = "post" /\ calls[1].posts = 1

\* The text of the 'chunk' frames of a log, and the text of the chunk
\* callbacks among the callbacks a step of a call fired.
RECURSIVE ChunkText(_)
ChunkText(log) ==
  IF log = <<>> THEN ""
  ELSE (IF Head(log).type = "chunk" THEN Head(log).payload ELSE "")
         \o ChunkText(Tail(log))

RECURSIVE Deltas(_)
Deltas(cbs) ==
  IF cbs = <<>> THEN ""
  ELSE (IF Head(cbs).k = "chunk" THEN Head(cbs).v ELSE "") \o Deltas(Tail(cbs))

\* C36: on an open connection the chunks a step sends carry exactly the
\* token deltas the upstream call delivered in that step, in order; no chunk
\* of a turn is sent after the turn's 'error' (of the upstream call) or
\* 'idle'; and the message buffer is empty whenever 'idle' is sent.
C36_ChunksCarryDeltasBeforeIdle ==
  [][ /\ \A i \in DOMAIN calls, lines \in Reads(limit.lines) :
           (Open /\ DoStreamRead(i, lines)) =>
             ChunkText(SentNow) = Deltas(StreamRead(calls[i], lines).out)
      /\ \A k \in DOMAIN sent' :
           sent'[k].type = "chunk" =>
             \A j \in 1..(k - 1) : /\ sent'[j] # Msg("error", "ai")
                                   /\ sent'[j].type # "idle"
      /\ IdleNow => messageBuffer' = "" ]_vars

(* --------------------------- the end of a turn -------------------------- *)

\* The animation a stored emotion keyword stands for.
AnimationOf(e) ==
  IF emotionKeywordToAnimationMap(e) # NoEmotion
  THEN emotionKeywordToAnimationMap(e) ELSE DEFAULT_ANIMATION

LastCompletion(c) == c.completions[Len(c.completions)]

C31_MalformedFrameShowsError ==
  [][Handles("malformed") =>
       /\ client'.chatHistory # client.chatHistory
       /\ Halted(client')
       /\ ~client'.isBotProcessing
       /\ client'.currentBotMessageId = Null
       /\ client'.accumulatedBotResponse = <<>>]_vars

(* ------------------ the message list of a chat request ------------------ *)

\* This step is a submission: Enter was pressed and a chat frame was sent.
Submits == wire'.submits = wire.submits + 1

\* The places of the new input in the message list of this submission: the
\* entry the server appends, and any entry of the history that was made from
\* the stored message of this input.
PlacesOfInput ==
  LET list == messages(apiHistory(client'), <<"hi">>)
  IN  {k \in DOMAIN list :
         k = Len(list) \/ (list[k].of # Null /\ list[k].of = NewId(client))}

\* C39: in the message list sent upstream for a submission the new user
\* input appears exactly once, as the last message: the history of the chat
\* frame does not already contain it.
C39_InputOnceInMessageList ==
  [][Submits =>
       PlacesOfInput = {Len(messages(apiHistory(client'), <<"hi">>))}]_vars

(* ------------------------- the end of every turn ----------------------- *)

\* The 'idle' of the turn has been handled after its 'processing', no frame
\* is on its way and the server is idle: no 'error' and no other frame can
\* follow, and no submission while isBotProcessing is true.
TurnStreamOver ==
  /\ client.isBotProcessing
  /\ client.isStreamCompleteRef
  /\ client.turnId # Null
  /\ wire.inbox = <<>> /\ wire.pending = 0 /\ wire.srv = "Idle"

TurnCompleted ==
  /\ ~client.isBotProcessing
  /\ \E n \in DOMAIN client.completions : client.completions[n].id = client.turnId

\* C33: a turn whose 'processing' was followed by 'idle', with any number of
\* chunks in between, with no 'error' and no new submission, is completed in
\* the end: the completion callback fires for it and isBotProcessing becomes
\* false.
C33_TurnEventuallyCompletes == TurnStreamOver ~> TurnCompleted

(* ----------------------- submitting a user message --------------------- *)

\* C38: a call of submitUserMessage while connected and with an input that is
\* not blank leaves, by the time the chat frame is handed to sendMessage, the
\* speech cancelled, the pacing loop stopped and the animation reset to
\* 'idle'; a call while not connected or with a blank input changes nothing
\* and sends nothing.
C38_SubmitCancelsThenSends ==
  [][\A userText \in UserTexts :
       SubmitUserMessage(userText) =>
         IF manager.isConnected /\ userText \in {<<"h", "i">>, <<" ", "h", "i", " ">>}
         THEN /\ ~client'.speaking
              /\ Halted(client')
              /\ client'.animation = "idle"
              /\ manager'.sends = manager.sends + 1
         ELSE client' = client /\ manager' = manager]_vars

\* The message was submitted after a completed turn, whose speech and 'jump'
\* animation the submission cancelled, and the frame went out.
C38_Witness ==
  /\ client.completions # <<>>
  /\ ~client.speaking
  /\ client.animation = "idle"
  /\ manager.sends = 1 /\ manager.transmitted = 1

====
